---- MODULE Spec2Model ----
(***************************************************************************)
(* The `main` component built by insert_main (calyx/queue_call.py) and the *)
(* `raise_err_if_i_eq_MAX_CMDS` component it invokes.  `main` walks the    *)
(* command memory, relays each command to a queue component and stores     *)
(* the answers of pops and peeks in `ans_mem`.  One action per group of    *)
(* the control program; `pc` is the position in that control program.      *)
(***************************************************************************)
EXTENDS Integers, Sequences, FiniteSets, TLC

\* ---------------------------------------------------------------- constants
MAX_CMDS == 15
ANS_MEM_LEN == 10

\* command encoding (comments of insert_main): 0 pop, 1 peek, 2 push
POP == 0
PEEK == 1
PUSH == 2
Ops == {POP, PEEK, PUSH}

\* ------------------------------------------------------------------- bounds
\* values found on the operand tape
Vals == {5, 9}
\* a command tape: CmdPrefix free commands, one opcode repeated, and one
\* opcode in the last TailLen cells
CmdPrefix == 3
TailLen == 2
\* the first ValPrefix operands are free, the rest repeat the last of them
ValPrefix == 3
\* tapes fed to the unconstrained queue: AnyPrefix free cells, then one
\* cell repeated
AnyPrefix == 1
\* capacity of the FIFO queue
QueueCap == 3

VARIABLES
    commands,      \* seq_mem_d1 "commands": the command tape
    values,        \* seq_mem_d1 "values": the operand tape
    ans_mem,       \* seq_mem_d1 "ans_mem": the answer tape
    commands_out,  \* read_data of `commands` (latched by read_cmd)
    values_out,    \* read_data of `values` (latched by read_value)
    i, j,          \* registers i, j
    cmd, value,    \* registers command, value
    ans, err,      \* registers ans, err (passed by reference)
    pc,            \* position in main.control
    engine,        \* which queue component `main` was built with
    q,             \* contents of the FIFO queue
    \* history of the run
    iters,         \* loop iterations started
    calls,         \* <<cmd, value>> pairs the queue was invoked with
    ans_log,       \* ans as the queue left it, one per pop/peek call
    written,       \* the addresses write_ans has stored to
    guard_in,      \* the inputs raise_err_if_i_eq_MAX_CMDS was invoked with
    raised_by      \* who raised err first: "none", "queue" or "guard"

vars == <<commands, values, ans_mem, commands_out, values_out, i, j, cmd,
          value, ans, err, pc, engine, q, iters, calls, ans_log, written,
          guard_in, raised_by>>

tapes == <<commands, values, engine>>
hist == <<iters, calls, ans_log, written, guard_in, raised_by>>

\* ------------------------------------------------------------------ helpers
\* a tape of MAX_CMDS cells: a free prefix p of n cells, then the cell f
\* repeated, then the cell t in the last m cells
Tape(p, n, f, m, t) ==
    [k \in 1..MAX_CMDS |->
        IF k <= n THEN p[k] ELSE IF k > MAX_CMDS - m THEN t ELSE f]

CmdTapes(n, m) == {Tape(p, n, f, m, t) : p \in [1..n -> Ops], f \in Ops, t \in Ops}
ValTapes(n) == {Tape(p, n, p[n], 0, p[n]) : p \in [1..n -> Vals]}

\* incr: x++ on a 32-bit register.  i and j count at most MAX_CMDS steps up
\* from 0, far below the 2^32 at which the adder would wrap.
Incr(x) == x + 1

\* faulty variant of the loop test: the comparison inverted
ErrEq1(e) == (e = TRUE)

\* err_eq_0: is the err flag down?
ErrEq0(e) == (e = FALSE)

\* faulty variants of the pop-or-peek test
CmdLt1(c) == c < 1
CmdLe2(c) == c <= 2

\* cmd_le_1: cmd <= 1
CmdLe1(c) == c <= 1

\* faulty variants of the instruction-ceiling check: comparing against the
\* wrong bound, storing the comparison, storing unconditionally
RaiseErrLate(idx, e) == IF idx = MAX_CMDS + 1 THEN TRUE ELSE e
RaiseErrEarly(idx, e) == IF idx + 1 = MAX_CMDS THEN TRUE ELSE e
RaiseErrAssign(idx, e) == (idx = MAX_CMDS)
RaiseErrAlways(idx, e) == TRUE

\* raise_err_if_i_eq_MAX_CMDS: the value of the ref register err after the
\* component has run with input idx
RaiseErrIfIEqMaxCmds(idx, e) == IF idx = MAX_CMDS THEN TRUE ELSE e

\* a sequential read of a MAX_CMDS-cell memory: the cell at addr; an address
\* past the end yields an unspecified cell of the domain dom
MemRead(mem, addr, dom) == IF addr < MAX_CMDS THEN {mem[addr + 1]} ELSE dom

\* a store to the ANS_MEM_LEN-cell memory: the memories it may become.  An
\* address past the end has no cell; the builder emits no check of j, and
\* what the store does is left to the memory: it is lost, or the address
\* wraps and it lands on a cell in use.
MemStore(mem, addr, data) ==
    IF addr < ANS_MEM_LEN
    THEN {[mem EXCEPT ![addr] = data]}
    ELSE {mem, [mem EXCEPT ![addr % ANS_MEM_LEN] = data]}

\* ------------------------------------------------------------ initial state
InitRegs ==
    /\ ans_mem = [a \in 0..(ANS_MEM_LEN - 1) |-> 0]
    /\ commands_out = 0
    /\ values_out = 0
    /\ i = 0
    /\ j = 0
    /\ cmd = 0
    /\ value = 0
    /\ ans = 0
    /\ err = FALSE
    /\ pc = "while"
    /\ q = <<>>
    /\ iters = 0
    /\ calls = <<>>
    /\ ans_log = <<>>
    /\ written = <<>>
    /\ guard_in = <<>>
    /\ raised_by = "none"

\* main built with a FIFO queue
InitFifo ==
    /\ engine = "fifo"
    /\ commands \in CmdTapes(CmdPrefix, TailLen)
    /\ values \in ValTapes(ValPrefix)
    /\ InitRegs

\* main built with a queue of which nothing is known but that it never
\* lowers err
InitAny ==
    /\ engine = "any"
    /\ commands \in CmdTapes(AnyPrefix, 0)
    /\ values \in ValTapes(AnyPrefix)
    /\ InitRegs

\* ------------------------------------------------------------------ actions
\* while_with(err_eq_0, ...): enter the body, or leave the loop
While ==
    /\ pc = "while"
    /\ IF ErrEq0(err)
       THEN /\ pc' = "read_cmd"
            /\ iters' = iters + 1
       ELSE /\ pc' = "done"
            /\ iters' = iters
    /\ UNCHANGED <<tapes, ans_mem, commands_out, values_out, i, j, cmd,
                   value, ans, err, q, calls, ans_log, written, guard_in,
                   raised_by>>

\* read_cmd_phase1: commands.addr0 = i, read_en
ReadCmd ==
    /\ pc = "read_cmd"
    /\ commands_out' \in MemRead(commands, i, Ops)
    /\ pc' = "write_cmd_to_reg"
    /\ UNCHANGED <<tapes, ans_mem, values_out, i, j, cmd, value, ans, err,
                   q, hist>>

\* write_cmd_phase2: command := commands.read_data
WriteCmdToReg ==
    /\ pc = "write_cmd_to_reg"
    /\ cmd' = commands_out
    /\ pc' = "read_value"
    /\ UNCHANGED <<tapes, ans_mem, commands_out, values_out, i, j, value,
                   ans, err, q, hist>>

\* faulty variant: the operand read at the answer index
ReadValueAtJ ==
    /\ pc = "read_value"
    /\ values_out' \in MemRead(values, j, Vals)
    /\ pc' = "write_value_to_reg"
    /\ UNCHANGED <<tapes, ans_mem, commands_out, i, j, cmd, value, ans, err,
                   q, hist>>

\* read_value: values.addr0 = i, read_en
ReadValue ==
    /\ pc = "read_value"
    /\ values_out' \in MemRead(values, i, Vals)
    /\ pc' = "write_value_to_reg"
    /\ UNCHANGED <<tapes, ans_mem, commands_out, i, j, cmd, value, ans, err,
                   q, hist>>

\* write_value_to_reg: value := values.read_data
WriteValueToReg ==
    /\ pc = "write_value_to_reg"
    /\ value' = values_out
    /\ pc' = "invoke_queue"
    /\ UNCHANGED <<tapes, ans_mem, commands_out, values_out, i, j, cmd, ans,
                   err, q, hist>>

\* the queue component, of which insert_main knows the interface only: it
\* is handed cmd and value, may write the ref register ans and may raise the
\* ref register err.  The outcomes of one invocation.
QueueAny(c, v, a, e, qq) ==
    {[ans |-> a2, err |-> e2, q |-> qq] : a2 \in {a, v}, e2 \in {e, TRUE}}

\* a FIFO queue of capacity QueueCap: pop removes and answers the front, peek
\* answers the front, push appends; an empty pop or peek and a push at
\* capacity raise err.  The answer of an empty pop or peek is unspecified.
QueueFifo(c, v, a, e, qq) ==
    IF c = PUSH
    THEN IF Len(qq) >= QueueCap
         THEN {[ans |-> a, err |-> TRUE, q |-> qq]}
         ELSE {[ans |-> a, err |-> e, q |-> Append(qq, v)]}
    ELSE IF qq = <<>>
         THEN {[ans |-> a2, err |-> TRUE, q |-> qq] : a2 \in Vals \cup {a}}
         ELSE {[ans |-> Head(qq), err |-> e,
                q |-> IF c = POP THEN Tail(qq) ELSE qq]}

Queue(kind, c, v, a, e, qq) ==
    IF kind = "fifo" THEN QueueFifo(c, v, a, e, qq) ELSE QueueAny(c, v, a, e, qq)

\* invoke(queue, in_cmd=cmd.out, in_value=value.out, ref_ans=ans, ref_err=err)
InvokeQueue ==
    /\ pc = "invoke_queue"
    /\ \E o \in Queue(engine, cmd, value, ans, err, q) :
          /\ ans' = o.ans
          /\ err' = o.err
          /\ q' = o.q
          /\ ans_log' = IF cmd \in {POP, PEEK}
                        THEN Append(ans_log, o.ans) ELSE ans_log
          /\ raised_by' = IF ~err /\ o.err THEN "queue" ELSE raised_by
    /\ calls' = Append(calls, <<cmd, value>>)
    /\ pc' = "if_cmd_le_1"
    /\ UNCHANGED <<tapes, ans_mem, commands_out, values_out, i, j, cmd,
                   value, iters, written, guard_in>>

\* variant with the check the author's note asks for: no write_ans and no
\* incr_j when err comes back raised
IfCmdLe1AndNoErr ==
    /\ pc = "if_cmd_le_1"
    /\ pc' = IF CmdLe1(cmd) /\ ErrEq0(err) THEN "write_ans" ELSE "incr_i"
    /\ UNCHANGED <<tapes, ans_mem, commands_out, values_out, i, j, cmd,
                   value, ans, err, q, hist>>

\* if_with(cmd_le_1, [write_ans, incr_j])
IfCmdLe1 ==
    /\ pc = "if_cmd_le_1"
    /\ pc' = IF CmdLe1(cmd) THEN "write_ans" ELSE "incr_i"
    /\ UNCHANGED <<tapes, ans_mem, commands_out, values_out, i, j, cmd,
                   value, ans, err, q, hist>>

\* faulty variant: the answer stored at the command index
WriteAnsAtI ==
    /\ pc = "write_ans"
    /\ ans_mem' \in MemStore(ans_mem, i, ans)
    /\ written' = Append(written, i)
    /\ pc' = "incr_j"
    /\ UNCHANGED <<tapes, commands_out, values_out, i, j, cmd, value, ans,
                   err, q, iters, calls, ans_log, guard_in, raised_by>>

\* variant with a check of j: a store past the end of ans_mem is not made
\* and raises err
WriteAnsChecked ==
    /\ pc = "write_ans"
    /\ IF j < ANS_MEM_LEN
       THEN /\ ans_mem' \in MemStore(ans_mem, j, ans)
            /\ written' = Append(written, j)
            /\ err' = err
       ELSE /\ ans_mem' = ans_mem
            /\ written' = written
            /\ err' = TRUE
    /\ pc' = "incr_j"
    /\ UNCHANGED <<tapes, commands_out, values_out, i, j, cmd, value, ans,
                   q, iters, calls, ans_log, guard_in, raised_by>>

\* write_ans: ans_mem[j] := ans
WriteAns ==
    /\ pc = "write_ans"
    /\ ans_mem' \in MemStore(ans_mem, j, ans)
    /\ written' = Append(written, j)
    /\ pc' = "incr_j"
    /\ UNCHANGED <<tapes, commands_out, values_out, i, j, cmd, value, ans,
                   err, q, iters, calls, ans_log, guard_in, raised_by>>

\* incr_j: j++
IncrJ ==
    /\ pc = "incr_j"
    /\ j' = Incr(j)
    /\ pc' = "incr_i"
    /\ UNCHANGED <<tapes, ans_mem, commands_out, values_out, i, cmd, value,
                   ans, err, q, hist>>

\* incr_i: i++
IncrI ==
    /\ pc = "incr_i"
    /\ i' = Incr(i)
    /\ pc' = "invoke_guard"
    /\ UNCHANGED <<tapes, ans_mem, commands_out, values_out, j, cmd, value,
                   ans, err, q, hist>>

\* invoke(raise_err_if_i_eq_max_cmds, in_i=i.out, ref_err=err)
InvokeGuard ==
    /\ pc = "invoke_guard"
    /\ err' = RaiseErrIfIEqMaxCmds(i, err)
    /\ raised_by' = IF ~err /\ err' THEN "guard" ELSE raised_by
    /\ guard_in' = Append(guard_in, i)
    /\ pc' = "while"
    /\ UNCHANGED <<tapes, ans_mem, commands_out, values_out, i, j, cmd,
                   value, ans, q, iters, calls, ans_log, written>>

Next ==
    \/ While
    \/ ReadCmd
    \/ WriteCmdToReg
    \/ ReadValue
    \/ WriteValueToReg
    \/ InvokeQueue
    \/ IfCmdLe1
    \/ WriteAns
    \/ IncrJ
    \/ IncrI
    \/ InvokeGuard

\* main built with a FIFO queue
Spec == InitFifo /\ [][Next]_vars

\* main built with an unconstrained queue
SpecAny == InitAny /\ [][Next]_vars

\* the control program is executed group after group, without pause, until
\* it has left the loop
FairSpec == Spec /\ WF_vars(Next)
FairSpecAny == SpecAny /\ WF_vars(Next)

\* =================================================================== claims
\* the pops and peeks among the first n commands of the tape
PopPeeks(n) == {k \in 1..n : commands[k] \in {POP, PEEK}}

\* the loop test and the end of the run
AtLoopTop == pc \in {"while", "done"}

\* the queue raised err during the run
QueueFault == raised_by = "queue"

\* C1: whatever the tape and whatever the queue does (it may raise err, it
\* never lowers it), the run started with i = 0, j = 0, err down leaves the
\* loop, and it never starts more than MAX_CMDS iterations.
C1_Terminates == <>(pc = "done") /\ [](iters <= MAX_CMDS)

\* a run that ended after exactly MAX_CMDS iterations
C1_Witness == pc = "done" /\ iters = MAX_CMDS

\* C2: at every loop test and at the end, j is the number of pops and peeks
\* among commands 0..i-1, and the answer of the k-th of them is held at
\* position k-1 of the answer tape, stored there before j went from k-1 to k.
C2_ResultTape ==
    AtLoopTop =>
        /\ j = Cardinality(PopPeeks(i))
        /\ Len(ans_log) = j
        /\ written = [k \in 1..j |-> k - 1]
        /\ \A k \in 1..j : /\ (k - 1) \in DOMAIN ans_mem
                           /\ ans_mem[k - 1] = ans_log[k]

\* C3: err is sticky: no step of the run lowers it.
C3_ErrSticky == [][err => err']_vars

\* the queue raised err and the flag survived the rest of the iteration
C3_Witness == pc = "while" /\ err /\ QueueFault /\ i < MAX_CMDS

\* C4: on a tape on which the queue never raises err, the loop relays all
\* MAX_CMDS commands, cell by cell, and then ends with i = MAX_CMDS and err
\* up, raised by the ceiling check.
C4_FullTape ==
    ([]~QueueFault) =>
        <>(/\ pc = "done"
           /\ i = MAX_CMDS
           /\ err
           /\ raised_by = "guard"
           /\ calls = [k \in 1..MAX_CMDS |-> <<commands[k], values[k]>>])

\* the end of a run in which the queue raised nothing
C4_Witness == pc = "done" /\ ~QueueFault /\ Len(calls) = MAX_CMDS

\* C5 as stated: a run in which the queue raises nothing ends with err down
\* and as many results as the tape has pops and peeks.
C5_EndsErrDown ==
    (pc = "done" /\ ~QueueFault) =>
        (err = FALSE /\ j = Cardinality(PopPeeks(MAX_CMDS)))

\* C5: a run in which the queue raises nothing ends with err up, raised by
\* the ceiling check at i = MAX_CMDS, and with j, the number of results
\* recorded, equal to the number of pops and peeks on the tape.
C5_EndsAtCeiling ==
    (pc = "done" /\ ~QueueFault) =>
        /\ err
        /\ raised_by = "guard"
        /\ i = MAX_CMDS
        /\ j = Cardinality(PopPeeks(MAX_CMDS))
        /\ Len(written) = j

\* the end of a fault-free run that recorded results
C5_Witness == pc = "done" /\ ~QueueFault /\ j > 0 /\ j < MAX_CMDS

\* C6: a pop or peek relayed to the empty queue raises err in that
\* iteration, and the iteration still takes the record branch: write_ans
\* stores the answer the queue left in ans at address j (into cell j when
\* the tape has one), and incr_j adds 1 to j.
C6_RecordOnFault ==
    [][/\ (pc = "invoke_queue" /\ cmd \in {POP, PEEK} /\ q = <<>>) => err'
       /\ (pc = "if_cmd_le_1" /\ cmd \in {POP, PEEK} /\ QueueFault)
              => pc' = "write_ans"
       /\ (pc = "write_ans" /\ QueueFault)
              => /\ ans = ans_log[Len(ans_log)]
                 /\ written' = Append(written, j)
                 /\ j < ANS_MEM_LEN => ans_mem' = [ans_mem EXCEPT ![j] = ans]
                 /\ pc' = "incr_j"
       /\ (pc = "incr_j" /\ QueueFault) => (j' = j + 1 /\ err')
      ]_vars

\* a pop on the empty queue raised err and its answer was recorded
C6_Witness ==
    /\ pc = "incr_i"
    /\ QueueFault
    /\ cmd = POP
    /\ q = <<>>
    /\ Len(written) = j
    /\ j >= 1
    /\ ans_mem[j - 1] = ans

\* the tape begins with the commands s
Begins(s) == \A k \in 1..Len(s) : commands[k] = s[k]

\* C7: with the FIFO queue, after push v1, push v2, push v3 and three pops
\* the answer tape reads v1, v2, v3; after push v, peek, pop it reads v, v.
C7_RoundTrip ==
    /\ (Begins(<<PUSH, PUSH, PUSH, POP, POP, POP>>) /\ pc = "while" /\ i = 6)
          => /\ j = 3
             /\ <<ans_mem[0], ans_mem[1], ans_mem[2]>>
                    = <<values[1], values[2], values[3]>>
             /\ written = <<0, 1, 2>>
    /\ (Begins(<<PUSH, PEEK, POP>>) /\ pc = "while" /\ i = 3)
          => /\ j = 2
             /\ <<ans_mem[0], ans_mem[1]>> = <<values[1], values[1]>>
             /\ written = <<0, 1>>

\* three pushed values, not all the same, have been popped
C7_Witness ==
    /\ Begins(<<PUSH, PUSH, PUSH, POP, POP, POP>>)
    /\ pc = "while"
    /\ i = 6
    /\ values[1] # values[2]
    /\ ans_mem[2] = values[3]

\* the scenario of C8: push 5, push 9, pop, peek
Scenario8 ==
    /\ Begins(<<PUSH, PUSH, POP, PEEK>>)
    /\ values[1] = 5
    /\ values[2] = 9

\* C8 as stated: the run of the scenario ends with i = 4, err down and the
\* answer tape 5, 5.
C8_EndsAtFour ==
    (Scenario8 /\ pc = "done") =>
        /\ i = 4
        /\ err = FALSE
        /\ j = 2
        /\ <<ans_mem[0], ans_mem[1]>> = <<5, 5>>

\* C8: after the four commands of the scenario (the loop test with i = 4)
\* err is down and the answer tape reads 5, 9; the run does not end there,
\* it ends later, with err up.
C8_AfterFour ==
    /\ (Scenario8 /\ pc = "while" /\ i = 4)
          => /\ err = FALSE
             /\ j = 2
             /\ <<ans_mem[0], ans_mem[1]>> = <<5, 9>>
             /\ q = <<9>>
    /\ (Scenario8 /\ pc = "done") => (err /\ i > 4)

\* the loop test after the four commands of the scenario
C8_Witness == Scenario8 /\ pc = "while" /\ i = 4 /\ j = 2

\* C9: on a tape of pushes only, whether or not the queue raises err, j
\* stays 0 and the answer tape is never written.
C9_AllPush ==
    (\A k \in 1..MAX_CMDS : commands[k] = PUSH) =>
        /\ j = 0
        /\ written = <<>>
        /\ ans_mem = [a \in 0..(ANS_MEM_LEN - 1) |-> 0]
        /\ pc \notin {"write_ans", "incr_j"}

\* the end of an all-push run in which the queue raised err
C9_Witness ==
    /\ \A k \in 1..MAX_CMDS : commands[k] = PUSH
    /\ pc = "done"
    /\ QueueFault
    /\ i > 1

\* C10: the ceiling check raises err when its input is MAX_CMDS, leaves err
\* as it is for every other input, and touches nothing else.
C10_GuardFrame ==
    [][pc = "invoke_guard" =>
          /\ err' = (IF i = MAX_CMDS THEN TRUE ELSE err)
          /\ UNCHANGED <<i, j, cmd, value, ans, ans_mem, commands, values>>
      ]_vars

\* the check has run with an input below MAX_CMDS and err already up
C10_Witness == pc = "while" /\ i < MAX_CMDS /\ err /\ QueueFault /\ i > 1

\* C11: the loop is left only with err up, and its body is entered only
\* with err down: err is up in every final state, and down from the loop
\* test that starts an iteration until the queue is invoked.
C11_LoopTest ==
    /\ pc = "done" => err
    /\ pc \in {"read_cmd", "write_cmd_to_reg", "read_value",
               "write_value_to_reg", "invoke_queue"} => ~err
    /\ (pc = "while" /\ ~err) => raised_by = "none"

\* a run that ended before the ceiling, on an err raised by the queue
C11_Witness == pc = "done" /\ err /\ QueueFault /\ i < MAX_CMDS /\ i > 1

\* C12: j is not held at ANS_MEM_LEN.  Every record issues its store at
\* address j, also when j is ANS_MEM_LEN or more, j keeps counting past
\* ANS_MEM_LEN, and the overflow raises nothing: err is up only if the
\* queue or the ceiling check (at i = MAX_CMDS) raised it.
C12_NoCheckOfJ ==
    /\ AtLoopTop => (j = Len(written) /\ written = [k \in 1..j |-> k - 1])
    /\ err => (QueueFault \/ (raised_by = "guard" /\ i = MAX_CMDS))
    /\ (j >= ANS_MEM_LEN /\ ~QueueFault /\ i < MAX_CMDS) => ~err

\* a push followed by peeks only, no fault of the queue: stores were issued
\* past the end of ans_mem and j ended above ANS_MEM_LEN
C12_Witness ==
    /\ pc = "done"
    /\ commands[1] = PUSH
    /\ \A k \in 2..MAX_CMDS : commands[k] = PEEK
    /\ ~QueueFault
    /\ j > ANS_MEM_LEN
    /\ \E k \in 1..Len(written) : written[k] >= ANS_MEM_LEN

\* C13: once the queue has raised err in the iteration of command k, that
\* iteration runs to its end (the record of a pop or peek, the advance of i,
\* the ceiling check), no further command is read or relayed, and the loop
\* is left at the next loop test with i = k + 1.
C13_FaultEndsRun ==
    QueueFault =>
        /\ err
        /\ Len(calls) = iters
        /\ pc \in {"if_cmd_le_1", "write_ans", "incr_j", "incr_i",
                   "invoke_guard", "while", "done"}
        /\ pc \in {"if_cmd_le_1", "write_ans", "incr_j", "incr_i"}
              => (i = iters - 1 /\ Len(guard_in) = iters - 1)
        /\ pc \in {"invoke_guard", "while", "done"}
              => /\ i = iters
                 /\ j = Cardinality(PopPeeks(i))
                 /\ Len(written) = j
        /\ AtLoopTop => guard_in = [k \in 1..iters |-> k]

\* the run ended after a fault of the queue on a pop or peek before the
\* last command; the answer of that call was recorded
C13_Witness ==
    /\ pc = "done"
    /\ QueueFault
    /\ i > 1
    /\ i < MAX_CMDS
    /\ commands[i] \in {POP, PEEK}
    /\ Len(written) = Cardinality(PopPeeks(i))

\* the groups of an iteration that come before incr_i
BeforeAdvance ==
    pc \in {"read_cmd", "write_cmd_to_reg", "read_value", "write_value_to_reg",
            "invoke_queue", "if_cmd_le_1", "write_ans", "incr_j", "incr_i"}

\* C14 as stated: the ceiling check is invoked once per iteration, with the
\* advanced i, and raises err in the iteration after the one that consumed
\* command MAX_CMDS - 1, not in that iteration.
C14_RaisedIterationAfter ==
    /\ AtLoopTop => guard_in = [k \in 1..iters |-> k]
    /\ raised_by = "guard" => iters = MAX_CMDS + 1

\* C14: the ceiling check is invoked once per iteration, with the advanced
\* i, and raises err at the end of the very iteration that consumed command
\* MAX_CMDS - 1, once that command has been relayed and i advanced to
\* MAX_CMDS; no iteration follows it.
C14_RaisedSameIteration ==
    /\ AtLoopTop => guard_in = [k \in 1..iters |-> k]
    /\ pc = "invoke_guard" => (i = iters /\ Len(guard_in) = iters - 1)
    /\ BeforeAdvance => Len(guard_in) = iters - 1
    /\ iters <= MAX_CMDS
    /\ raised_by = "guard" =>
          /\ iters = MAX_CMDS
          /\ Len(calls) = MAX_CMDS
          /\ calls[MAX_CMDS] = <<commands[MAX_CMDS], values[MAX_CMDS]>>
          /\ guard_in[Len(guard_in)] = MAX_CMDS
          /\ Len(guard_in) = MAX_CMDS

\* the ceiling check has just raised err, in iteration MAX_CMDS
C14_Witness ==
    /\ pc = "while"
    /\ raised_by = "guard"
    /\ iters = MAX_CMDS
    /\ Len(calls) = MAX_CMDS

\* what C15 says of i apart from its last clause
IndexInBounds ==
    /\ i >= 0
    /\ i <= MAX_CMDS
    /\ AtLoopTop => i = iters
    /\ BeforeAdvance => i = iters - 1
    /\ pc = "invoke_guard" => i = iters
    /\ pc \in {"read_cmd", "read_value"} => i < MAX_CMDS

\* C15 as stated: i stays within 0..MAX_CMDS, grows by one per iteration,
\* is below MAX_CMDS at every read of the tapes, and is MAX_CMDS only in
\* states in which err is up.
C15_IndexErrUp == IndexInBounds /\ (i = MAX_CMDS => err)

\* C15: i stays within 0..MAX_CMDS, grows by one per iteration, is below
\* MAX_CMDS at every read of the tapes, and is MAX_CMDS only once the last
\* iteration has advanced it: err is up in every such state but the one
\* between that advance and its ceiling check.
C15_Index == IndexInBounds /\ ((i = MAX_CMDS /\ pc # "invoke_guard") => err)

\* i has been advanced to MAX_CMDS and the ceiling check has yet to run
C15_Witness == pc = "invoke_guard" /\ i = MAX_CMDS /\ ~err

\* C16: the queue is invoked once per iteration with the command and the
\* operand of the same cell i, both reads being complete and i unchanged
\* before the invoke; at every loop test the calls made are the cells
\* 0..i-1 of the two tapes, in order.
C16_CallsAreTapePrefix ==
    /\ AtLoopTop => (/\ Len(calls) = iters
                     /\ calls = [k \in 1..i |-> <<commands[k], values[k]>>])
    /\ BeforeAdvance => i = iters - 1
    /\ pc = "write_cmd_to_reg" => commands_out = commands[i + 1]
    /\ pc \in {"read_value", "write_value_to_reg", "invoke_queue"}
          => cmd = commands[i + 1]
    /\ pc = "write_value_to_reg" => values_out = values[i + 1]
    /\ pc = "invoke_queue" => (value = values[i + 1] /\ Len(calls) = iters - 1)
    /\ pc \in {"if_cmd_le_1", "write_ans", "incr_j", "incr_i"}
          => (/\ Len(calls) = iters
              /\ calls[iters] = <<commands[iters], values[iters]>>)

\* two pushes with different operands have been relayed
C16_Witness ==
    /\ pc = "while"
    /\ i >= 2
    /\ calls[1] = <<PUSH, 5>>
    /\ calls[2] = <<PUSH, 9>>

\* C17: the ceiling check raises err only in the iteration that advances i
\* to MAX_CMDS.  So a run that ended with i < MAX_CMDS ended on an err of
\* the queue, every run ends with 1 <= i <= MAX_CMDS, and a run in which
\* the queue raises nothing ends, with i = MAX_CMDS.
C17_FinalIndex ==
    /\ [](/\ raised_by = "guard" => (i = MAX_CMDS /\ iters = MAX_CMDS)
          /\ pc = "done" => (/\ i >= 1
                             /\ i <= MAX_CMDS
                             /\ i < MAX_CMDS => QueueFault
                             /\ ~QueueFault => i = MAX_CMDS))
    /\ ([]~QueueFault) => <>(pc = "done" /\ i = MAX_CMDS)

\* a run ended below the ceiling, on an err of the queue
C17_Witness == pc = "done" /\ i < MAX_CMDS /\ QueueFault /\ raised_by # "guard"

====
